---- MODULE Spec2Model ----
(***************************************************************************)
(* Progress-notification subsystem of monkeypoxtoken-be: the SSEManager    *)
(* registry (middlewares/sse), the SSE middleware that binds a streaming   *)
(* connection to a client identifier, sendProgressUpdate (utils/progress)  *)
(* and the three request handlers that publish progress events.            *)
(*                                                                         *)
(* Node runs every handler on one event loop: a synchronous stretch of     *)
(* code (a whole middleware call, a handler between two awaits) is one     *)
(* atomic action.                                                          *)
(***************************************************************************)
EXTENDS Integers, Sequences, FiniteSets, TLC

\* ------------------------------------------------------------- bounds
MaxConns == 2          \* streaming connections ever opened
MaxCalls == 2          \* direct sendProgressUpdate / broadcast calls
MaxNow == 1            \* largest value Date.now() returns
MaxRuns == 1           \* handler invocations

Conns == 1..MaxConns
Runs == 1..MaxRuns
NoConn == 0            \* Map.get() returned undefined

\* req.params.clientId values; NoParam is the empty/undefined parameter
ParamIds == {"a"}
NoParam == ""

\* ProgressUpdate fields that are optional are Absent / NoProgress when unset
Absent == "undefined"
NoProgress == 0 - 1

VARIABLES
    clients,     \* SSEManager.clients: Map<string, SSEClient> in insertion order
    conn,        \* per connection: status of req/res and the clientId of its closure
    out,         \* per connection: the chunks res.write accepted, in order
    now,         \* last value returned by Date.now()
    runs,        \* per handler invocation: kind, clientId, position, response
    ncalls,      \* number of direct sendProgressUpdate / broadcast calls so far
    due,         \* per connection: the events passed to sendToClient for its
                 \* identifier, or to broadcast, while it was the registered entry
    lost,        \* connections to whose identifier sendProgressUpdate was called
                 \* after they closed, while no stream was registered for it
    raised,      \* an exception left sendProgressUpdate / broadcast
    chan         \* per connection: the calls sseMiddleware made in order, the
                 \* "close" listeners on req, the removeClient calls they made

vars == <<clients, conn, out, now, runs, ncalls, due, lost, raised, chan>>

\* ------------------------------------------------------------- values
Digits == <<"0", "1", "2", "3", "4", "5", "6", "7", "8", "9">>

\* Number.prototype.toString for a non-negative integer
RECURSIVE toString(_)
toString(n) ==
    IF n < 10 THEN Digits[n + 1]
    ELSE toString(n \div 10) \o Digits[(n % 10) + 1]

Ev(t, s, st, p) == [type |-> t, status |-> s, step |-> st, progress |-> p]

\* JSON.stringify of a ProgressUpdate: the defined keys in literal order,
\* numbers as decimal text
JSONstringify(data) ==
    <<<<"type", data.type>>, <<"status", data.status>>>>
    \o (IF data.step = Absent THEN <<>> ELSE <<<<"step", data.step>>>>)
    \o (IF data.progress = NoProgress THEN <<>>
        ELSE <<<<"progress", toString(data.progress)>>>>)

\* JSON.stringify({ type: "connected", clientId })
ConnectedJSON(clientId) == <<<<"type", "connected">>, <<"clientId", clientId>>>>

\* `data: ${json}\n\n`
Frame(json) == <<"data: ", json, "\n\n">>

\* ------------------------------------------------------------- the Map
Has(m, id) == \E i \in 1..Len(m) : m[i].id = id

IndexOf(m, id) == CHOOSE i \in 1..Len(m) : m[i].id = id

\* Map.prototype.get
MapGet(m, id) == IF Has(m, id) THEN m[IndexOf(m, id)].response ELSE NoConn

\* faulty variant: the entry is appended even when the key is present
addClientAppend(m, client) == Append(m, client)

\* SSEManager.addClient: Map.set keeps the position of an existing key
addClient(m, client) ==
    IF Has(m, client.id)
    THEN [m EXCEPT ![IndexOf(m, client.id)] = client]
    ELSE Append(m, client)

\* faulty variant: the entry is kept
removeClientKeep(m, clientId) == m

\* faulty variant: every entry is dropped
removeClientAll(m, clientId) == <<>>

\* SSEManager.removeClient: Map.delete by key
removeClient(m, clientId) == SelectSeq(m, LAMBDA e : e.id # clientId)

\* ------------------------------------------------------------- writes
\* faulty variant: a write to a destroyed response throws
ResWriteThrows(o, c, chunk) ==
    IF conn[c].status \in {"failed", "closed"}
    THEN [out |-> o, threw |-> TRUE]
    ELSE [out |-> [o EXCEPT ![c] = Append(@, chunk)], threw |-> FALSE]

\* faulty variant: the chunk is put in front of what was written
ResWriteFront(o, c, chunk) ==
    IF conn[c].status \in {"failed", "closed"}
    THEN [out |-> o, threw |-> FALSE]
    ELSE [out |-> [o EXCEPT ![c] = <<chunk>> \o @], threw |-> FALSE]

\* client.response.write(chunk): Node's ServerResponse.write appends the
\* chunk to the stream; on a destroyed response it returns false, drops the
\* chunk and does not throw.
ResWrite(o, c, chunk) ==
    IF conn[c].status \in {"failed", "closed"}
    THEN [out |-> o, threw |-> FALSE]
    ELSE [out |-> [o EXCEPT ![c] = Append(@, chunk)], threw |-> FALSE]

\* faulty variant: no check that the client exists; the first entry is written
sendToClientNoCheck(o, clientId, data) ==
    LET c == MapGet(clients, clientId) IN
    IF c # NoConn THEN ResWrite(o, c, Frame(JSONstringify(data)))
    ELSE IF Len(clients) > 0
         THEN ResWrite(o, clients[1].response, Frame(JSONstringify(data)))
         ELSE [out |-> o, threw |-> TRUE]

\* faulty variant: the frame is written a second time
sendToClientTwice(o, clientId, data) ==
    LET c == MapGet(clients, clientId) IN
    IF c # NoConn
    THEN ResWrite(ResWrite(o, c, Frame(JSONstringify(data))).out, c,
                  Frame(JSONstringify(data)))
    ELSE [out |-> o, threw |-> FALSE]

\* faulty variant: the frame goes to the first entry of the Map, whatever
\* its identifier
sendToClientFirst(o, clientId, data) ==
    IF Len(clients) > 0
    THEN ResWrite(o, clients[1].response, Frame(JSONstringify(data)))
    ELSE [out |-> o, threw |-> FALSE]

\* SSEManager.sendToClient
sendToClient(o, clientId, data) ==
    LET c == MapGet(clients, clientId) IN
    IF c # NoConn
    THEN ResWrite(o, c, Frame(JSONstringify(data)))
    ELSE [out |-> o, threw |-> FALSE]

\* Map.prototype.forEach with the write callback of broadcast: entries in
\* insertion order; an exception in the callback ends the iteration
RECURSIVE forEachWrite(_, _, _, _)
forEachWrite(o, m, i, data) ==
    IF i > Len(m) THEN [out |-> o, threw |-> FALSE]
    ELSE LET r == ResWrite(o, m[i].response, Frame(JSONstringify(data))) IN
         IF r.threw THEN r ELSE forEachWrite(r.out, m, i + 1, data)

\* faulty variant: the last entry is skipped
broadcastSkipLast(o, data) ==
    forEachWrite(o, SubSeq(clients, 1, Len(clients) - 1), 1, data)

\* SSEManager.broadcast
broadcast(o, data) == forEachWrite(o, clients, 1, data)

\* utils/progress sendProgressUpdate
sendProgressUpdate(o, clientId, update) == sendToClient(o, clientId, update)

\* ------------------------------------------------------------- Init
NoRun == [kind |-> "none", clientId |-> NoParam, pc |-> 0, state |-> "idle",
          http |-> 0, published |-> <<>>]

Init ==
    /\ clients = <<>>
    /\ conn = [c \in Conns |-> [status |-> "idle", id |-> NoParam]]
    /\ out = [c \in Conns |-> <<>>]
    /\ now = 0
    /\ runs = [r \in Runs |-> NoRun]
    /\ ncalls = 0
    /\ due = [c \in Conns |-> <<>>]
    /\ lost = {}
    /\ raised = FALSE
    /\ chan = [c \in Conns |-> [log |-> <<>>, hooks |-> 0, unreg |-> 0]]

\* ------------------------------------------------------------- transport
\* the calls of sseMiddleware in statement order
sseMiddlewareSteps ==
    <<"setHeader", "setHeader", "setHeader", "flushHeaders",
      "addClient", "write", "on">>

\* faulty variant: the connected frame is not written
sseMiddlewareSilent(c, param, t) ==
    LET clientId == IF param # NoParam THEN param ELSE toString(t) IN
    /\ conn[c].status = "idle"
    /\ \A d \in Conns : d < c => conn[d].status # "idle"
    /\ t >= now
    /\ param # NoParam => t = now
    /\ now' = t
    /\ clients' = addClient(clients, [id |-> clientId, response |-> c])
    /\ conn' = [conn EXCEPT ![c] = [status |-> "open", id |-> clientId]]
    /\ out' = out
    /\ chan' = [chan EXCEPT ![c] = [log |-> sseMiddlewareSteps, hooks |-> 1,
                                    unreg |-> 0]]
    /\ UNCHANGED <<runs, ncalls, due, lost, raised>>

\* faulty variants of sseMiddleware: the identifier registered under param
\* at time t, with other frames written, calls made or listeners installed
ResolvedId(param, t) == IF param # NoParam THEN param ELSE toString(t)

Establish(c, param, t, written, steps, hooks) ==
    /\ conn[c].status = "idle"
    /\ \A d \in Conns : d < c => conn[d].status # "idle"
    /\ t >= now
    /\ param # NoParam => t = now
    /\ now' = t
    /\ clients' = addClient(clients, [id |-> ResolvedId(param, t),
                                      response |-> c])
    /\ conn' = [conn EXCEPT ![c] = [status |-> "open",
                                    id |-> ResolvedId(param, t)]]
    /\ out' = [out EXCEPT ![c] = written]
    /\ chan' = [chan EXCEPT ![c] = [log |-> steps, hooks |-> hooks,
                                    unreg |-> 0]]
    /\ UNCHANGED <<runs, ncalls, due, lost, raised>>

\* faulty variant: no "close" listener is installed
sseMiddlewareNoHook(c, param, t) ==
    Establish(c, param, t, <<Frame(ConnectedJSON(ResolvedId(param, t)))>>,
              SubSeq(sseMiddlewareSteps, 1, Len(sseMiddlewareSteps) - 1), 0)

\* faulty variant: a new stream is first sent the events the previous stream
\* of its identifier was owed
Replayed(clientId) ==
    LET prev == {d \in Conns : conn[d].status # "idle"
                                 /\ conn[d].id = clientId}
        last == CHOOSE d \in prev : \A e \in prev : e <= d
    IN IF prev = {} THEN <<>>
       ELSE [i \in 1..Len(due[last]) |-> Frame(JSONstringify(due[last][i]))]

sseMiddlewareReplay(c, param, t) ==
    Establish(c, param, t,
              <<Frame(ConnectedJSON(ResolvedId(param, t)))>>
                  \o Replayed(ResolvedId(param, t)),
              sseMiddlewareSteps, 1)

\* faulty variant: the connected frame carries the route parameter, not the
\* resolved identifier
sseMiddlewareRawParam(c, param, t) ==
    Establish(c, param, t, <<Frame(ConnectedJSON(param))>>,
              sseMiddlewareSteps, 1)

\* faulty variant: the headers are flushed after the connected frame
sseMiddlewareLateFlush(c, param, t) ==
    Establish(c, param, t, <<Frame(ConnectedJSON(ResolvedId(param, t)))>>,
              <<"setHeader", "setHeader", "setHeader", "addClient", "write",
                "flushHeaders", "on">>, 1)

\* sseMiddleware: GET /events/:clientId.  Connections are numbered in the
\* order they arrive.  Date.now() is read only when the parameter is empty.
sseMiddleware(c, param, t) ==
    LET clientId == IF param # NoParam THEN param ELSE toString(t) IN
    /\ conn[c].status = "idle"
    /\ \A d \in Conns : d < c => conn[d].status # "idle"
    /\ t >= now
    /\ param # NoParam => t = now
    /\ now' = t
    /\ clients' = addClient(clients, [id |-> clientId, response |-> c])
    /\ conn' = [conn EXCEPT ![c] = [status |-> "open", id |-> clientId]]
    /\ out' = [out EXCEPT ![c] = Append(@, Frame(ConnectedJSON(clientId)))]
    /\ chan' = [chan EXCEPT ![c] = [log |-> sseMiddlewareSteps, hooks |-> 1,
                                    unreg |-> 0]]
    /\ UNCHANGED <<runs, ncalls, due, lost, raised>>

\* the "close" event of req: every listener installed by req.on("close", ...)
\* runs once and calls removeClient(clientId)
\* faulty variant: the close notification also aborts the requests in flight
\* for the identifier
onCloseCancel(c) ==
    /\ conn[c].status \in {"open", "failed"}
    /\ clients' = removeClient(clients, conn[c].id)
    /\ conn' = [conn EXCEPT ![c].status = "closed"]
    /\ chan' = [chan EXCEPT ![c].unreg = @ + chan[c].hooks]
    /\ runs' = [r \in DOMAIN runs |->
                  IF runs[r].state = "suspended"
                     /\ runs[r].clientId = conn[c].id
                  THEN [runs[r] EXCEPT !.state = "escaped", !.pc = 0]
                  ELSE runs[r]]
    /\ UNCHANGED <<out, now, ncalls, due, lost, raised>>

onClose(c) ==
    /\ conn[c].status \in {"open", "failed"}
    /\ clients' = IF chan[c].hooks > 0
                  THEN removeClient(clients, conn[c].id) ELSE clients
    /\ conn' = [conn EXCEPT ![c].status = "closed"]
    /\ chan' = [chan EXCEPT ![c].unreg = @ + chan[c].hooks]
    /\ UNCHANGED <<out, now, runs, ncalls, due, lost, raised>>

\* the peer is gone and the socket destroyed; "close" has not fired yet
TransportFail(c) ==
    /\ conn[c].status = "open"
    /\ conn' = [conn EXCEPT ![c].status = "failed"]
    /\ UNCHANGED <<clients, out, now, runs, ncalls, due, lost, raised, chan>>

\* ------------------------------------------------------------- producers
Ids == ParamIds \cup {toString(t) : t \in 0..MaxNow}

\* the events of direct calls: the k-th call passes Updates[k]
Updates ==
    <<Ev("token", "started", Absent, NoProgress),
      Ev("token", "progress", "building", 60),
      Ev("token", "completed", Absent, 100),
      Ev("token", "error", Absent, NoProgress)>>

\* history: the events each registered connection is owed after the calls cs
\* (one record per call: broadcast or the identifier, and the event)
Registered(c) == \E i \in 1..Len(clients) : clients[i].response = c

Owed(c, call) == Registered(c) /\ (call.all \/ call.id = conn[c].id)

DueAfter(d, cs) ==
    [c \in Conns |-> d[c] \o [i \in 1..Len(SelectSeq(cs, LAMBDA k : Owed(c, k))) |->
                                SelectSeq(cs, LAMBDA k : Owed(c, k))[i].ev]]

LostBy(clientId) ==
    {c \in Conns : /\ conn[c].status = "closed"
                   /\ conn[c].id = clientId
                   /\ ~Has(clients, clientId)}

NextUpdate == Updates[(ncalls % Len(Updates)) + 1]

\* a producer calls sendProgressUpdate(clientId, update)
CallSendProgressUpdate(clientId) ==
    LET r == sendProgressUpdate(out, clientId, NextUpdate) IN
    /\ ncalls < MaxCalls
    /\ out' = r.out
    /\ raised' = (raised \/ r.threw)
    /\ ncalls' = ncalls + 1
    /\ due' = DueAfter(due, <<[all |-> FALSE, id |-> clientId, ev |-> NextUpdate]>>)
    /\ lost' = lost \cup LostBy(clientId)
    /\ UNCHANGED <<clients, conn, now, runs, chan>>

\* a producer calls sseManager.broadcast(update)
CallBroadcast ==
    LET r == broadcast(out, NextUpdate) IN
    /\ ncalls < MaxCalls
    /\ out' = r.out
    /\ raised' = (raised \/ r.threw)
    /\ ncalls' = ncalls + 1
    /\ due' = DueAfter(due, <<[all |-> TRUE, id |-> NoParam, ev |-> NextUpdate]>>)
    /\ UNCHANGED <<clients, conn, now, runs, lost, chan>>

\* ------------------------------------------------------------- handlers
\* A handler body is a list of instructions.  A named instruction is a place
\* where the request or the SDK decides the path: the choice `fault` names
\* the one that goes wrong in the running stretch of code.
Pub(ev) == [op |-> "pub", ev |-> ev]                \* sendProgressUpdate(clientId, ev)
Ret(code) == [op |-> "ret", status |-> code]        \* return res.status(code).json(..)
Throw == [op |-> "throw"]                           \* the exception propagates
Test(name, body) == [op |-> "test", name |-> name, body |-> body]
Call(name) == Test(name, <<Throw>>)                 \* a call that may throw
Await(name, body) == [op |-> "await", name |-> name, body |-> body]

\* controllers/createToken.ts, the try block
createTokenCode ==
    <<Pub(Ev("token", "started", Absent, NoProgress)),
      Test("fields", <<Ret(400)>>),
      Pub(Ev("token", "progress", "initialization", 40)),
      Call("umi"),
      Pub(Ev("token", "progress", "building", 60)),
      Call("builder"),
      Pub(Ev("token", "progress", "finalizing", 80)),
      Await("getLatestBlockhash", <<Throw>>),
      Await("build", <<Throw>>),
      Call("serialize"),
      Pub(Ev("token", "completed", Absent, 100)),
      Ret(200)>>

\* controllers/createToken.ts, the catch block
createTokenCatch == <<Pub(Ev("token", "error", Absent, NoProgress)), Ret(500)>>

\* controllers/deployCollection.ts, the try block
deployCollectionCode ==
    <<Pub(Ev("collection", "started", Absent, NoProgress)),
      Pub(Ev("collection", "progress", "validation", 20)),
      Test("fields", <<Ret(400)>>),
      Pub(Ev("collection", "progress", "wallet_init", 40)),
      Test("getWalletKeypair", <<Ret(400)>>),
      Pub(Ev("collection", "progress", "connection", 60)),
      Call("umi"),
      Pub(Ev("collection", "progress", "preparation", 70)),
      Call("creators"),
      Pub(Ev("collection", "progress", "deployment", 80)),
      Await("createCollection", <<Throw>>),
      Pub(Ev("collection", "completed", Absent, 100)),
      Ret(200)>>

\* controllers/deployCollection.ts, the catch block
deployCollectionCatch ==
    <<Pub(Ev("collection", "error", Absent, NoProgress)), Ret(500)>>

NftError == Pub(Ev("nft", "error", Absent, NoProgress))

\* controllers/mintNFT.ts, the try block
mintCollectionNFTCode ==
    <<Pub(Ev("nft", "started", Absent, NoProgress)),
      Pub(Ev("nft", "progress", "validation", 15)),
      Test("rpcEndpoint", <<NftError, Ret(400)>>),
      Test("privateKey", <<NftError, Ret(400)>>),
      Call("metadata"),
      Test("fields", <<NftError, Ret(400)>>),
      Pub(Ev("nft", "progress", "connection", 30)),
      Call("connection"),
      Await("getLatestBlockhash", <<NftError, Ret(400)>>),
      Pub(Ev("nft", "progress", "wallet_init", 45)),
      Test("getWalletKeypair", <<NftError, Ret(400)>>),
      Pub(Ev("nft", "progress", "umi_init", 60)),
      Call("umi"),
      Pub(Ev("nft", "progress", "collection_verification", 75)),
      Await("fetchCollection", <<Throw>>),
      Call("generateSigner"),
      Pub(Ev("nft", "progress", "minting", 90)),
      Call("recipient"),
      Await("create", <<Throw>>),
      Pub(Ev("nft", "completed", Absent, 100)),
      Ret(200)>>

\* controllers/mintNFT.ts, the catch block
mintCollectionNFTCatch == <<NftError, Ret(500)>>

Kinds == {"createToken", "deployCollection", "mintCollectionNFT"}

Code(kind) ==
    CASE kind = "createToken" -> createTokenCode
      [] kind = "deployCollection" -> deployCollectionCode
      [] kind = "mintCollectionNFT" -> mintCollectionNFTCode

\* faulty variant: the catch block publishes its error event a second time
CatchResend(kind) ==
    LET c == CASE kind = "createToken" -> createTokenCatch
               [] kind = "deployCollection" -> deployCollectionCatch
               [] kind = "mintCollectionNFT" -> mintCollectionNFTCatch
    IN <<c[1]>> \o c

Catch(kind) ==
    CASE kind = "createToken" -> createTokenCatch
      [] kind = "deployCollection" -> deployCollectionCatch
      [] kind = "mintCollectionNFT" -> mintCollectionNFTCatch

Faults(kind) ==
    {"none"} \cup {Code(kind)[i].name :
                      i \in {j \in 1..Len(Code(kind)) :
                                Code(kind)[j].op \in {"test", "await"}}}

AllFaults == UNION {Faults(k) : k \in Kinds}

\* One synchronous stretch of a handler: the instructions from code[i] to the
\* next await or return.  inTry: an exception is caught by the handler's
\* catch block; an exception thrown in the catch block leaves the handler.
RECURSIVE Exec(_, _, _, _, _)
Exec(code, i, inTry, ctx, st) ==
    LET ins == code[i]
        thrown == IF inTry THEN Exec(Catch(ctx.kind), 1, FALSE, ctx, st)
                  ELSE [st EXCEPT !.state = "escaped", !.pc = 0]
    IN
    CASE ins.op = "pub" ->
           LET r == sendProgressUpdate(st.out, ctx.clientId, ins.ev)
               st1 == [st EXCEPT
                         !.out = r.out,
                         !.published = Append(@, ins.ev),
                         !.due = DueAfter(@, <<[all |-> FALSE,
                                                id |-> ctx.clientId,
                                                ev |-> ins.ev]>>),
                         !.lost = @ \cup LostBy(ctx.clientId),
                         !.raised = @ \/ r.threw]
           IN IF ~r.threw THEN Exec(code, i + 1, inTry, ctx, st1)
              ELSE IF inTry THEN Exec(Catch(ctx.kind), 1, FALSE, ctx, st1)
              ELSE [st1 EXCEPT !.state = "escaped", !.pc = 0]
      [] ins.op = "test" ->
           IF ctx.fault = ins.name THEN Exec(ins.body, 1, inTry, ctx, st)
           ELSE Exec(code, i + 1, inTry, ctx, st)
      [] ins.op = "throw" -> thrown
      [] ins.op = "await" -> [st EXCEPT !.state = "suspended", !.pc = i]
      [] ins.op = "ret" -> [st EXCEPT !.state = "done", !.pc = 0,
                                      !.http = ins.status]

\* the identifiers request bodies carry
BodyIds == ParamIds \cup {toString(0)}

StOf(r) == [out |-> out, due |-> due, lost |-> lost, raised |-> raised,
            published |-> runs[r].published, http |-> runs[r].http,
            pc |-> runs[r].pc, state |-> runs[r].state]

Commit(r, kind, clientId, st) ==
    /\ runs' = [runs EXCEPT ![r] = [kind |-> kind, clientId |-> clientId,
                                    pc |-> st.pc, state |-> st.state,
                                    http |-> st.http,
                                    published |-> st.published]]
    /\ out' = st.out
    /\ due' = st.due
    /\ lost' = st.lost
    /\ raised' = st.raised
    /\ UNCHANGED <<clients, conn, now, ncalls, chan>>

\* a request arrives: the handler runs up to its first await or return
Handle(r, kind, clientId, fault) ==
    /\ runs[r].state = "idle"
    /\ \A q \in Runs : q < r => runs[q].state # "idle"
    /\ Commit(r, kind, clientId,
              Exec(Code(kind), 1, TRUE,
                   [kind |-> kind, clientId |-> clientId, fault |-> fault],
                   StOf(r)))

\* POST /create/token
createToken(r, clientId, fault) == Handle(r, "createToken", clientId, fault)

\* POST /create/collection
deployCollection(r, clientId, fault) ==
    Handle(r, "deployCollection", clientId, fault)

\* POST /mint/nft
mintCollectionNFT(r, clientId, fault) ==
    Handle(r, "mintCollectionNFT", clientId, fault)

\* the awaited promise settles: rejected when fault names it, else resolved,
\* and the handler runs on to its next await or return
Resume(r, fault) ==
    LET kind == runs[r].kind
        ins == Code(kind)[runs[r].pc]
        ctx == [kind |-> kind, clientId |-> runs[r].clientId, fault |-> fault]
    IN
    /\ runs[r].state = "suspended"
    /\ Commit(r, kind, runs[r].clientId,
              IF fault = ins.name
              THEN Exec(ins.body, 1, TRUE, ctx, StOf(r))
              ELSE Exec(Code(kind), runs[r].pc + 1, TRUE, ctx, StOf(r)))

\* ------------------------------------------------------------- Spec
\* the registry with its transport and direct producers
Next ==
    \/ \E c \in Conns, p \in ParamIds \cup {NoParam}, t \in 0..MaxNow :
           sseMiddleware(c, p, t)
    \/ \E c \in Conns : onClose(c)
    \/ \E c \in Conns : TransportFail(c)
    \/ \E id \in Ids : CallSendProgressUpdate(id)
    \/ CallBroadcast

Spec == Init /\ [][Next]_vars

\* the request handlers with one subscriber: only the first connection is
\* ever opened
NoneOpened == \A c \in Conns : conn[c].status = "idle"

HandlerNext ==
    \/ \E r \in Runs, id \in BodyIds : \E f \in Faults("createToken") :
           createToken(r, id, f)
    \/ \E r \in Runs, id \in BodyIds : \E f \in Faults("deployCollection") :
           deployCollection(r, id, f)
    \/ \E r \in Runs, id \in BodyIds : \E f \in Faults("mintCollectionNFT") :
           mintCollectionNFT(r, id, f)
    \/ \E r \in Runs, f \in AllFaults : Resume(r, f)
    \/ \E c \in Conns, p \in ParamIds \cup {NoParam} :
           NoneOpened /\ sseMiddleware(c, p, now)
    \/ \E c \in Conns : onClose(c)
    \/ \E c \in Conns : TransportFail(c)

HandlerSpec == Init /\ [][HandlerNext]_vars

\* ------------------------------------------------------------- properties
Opened(c) == conn[c].status # "idle"

\* c is the most recent connection to have registered its identifier
Latest(c) ==
    /\ Opened(c)
    /\ \A d \in Conns : (d > c /\ Opened(d)) => conn[d].id # conn[c].id

\* what a stream holds when every event it was owed was written
Expected(c) ==
    <<Frame(ConnectedJSON(conn[c].id))>>
    \o [i \in 1..Len(due[c]) |-> Frame(JSONstringify(due[c][i]))]

UniqueIds ==
    \A i, j \in 1..Len(clients) : clients[i].id = clients[j].id => i = j

EntryIsLatest ==
    \A i \in 1..Len(clients) :
        /\ clients[i].response \in Conns
        /\ conn[clients[i].response].id = clients[i].id
        /\ Latest(clients[i].response)

\* C1: the registry holds at most one entry per identifier, the entry of an
\* identifier is the handle of its most recent registration, and a handle
\* that has been replaced is never written again by publish or broadcast.
C1_ReplaceOnRegister ==
    /\ [](UniqueIds /\ EntryIsLatest)
    /\ [][\A c \in Conns : (Opened(c) /\ ~Latest(c)) => out'[c] = out[c]]_vars

C1_Witness ==
    /\ conn[1].status = "open" /\ conn[2].status = "open"
    /\ conn[1].id = conn[2].id
    /\ Len(clients) = 1
    /\ Len(out[1]) = 1 /\ Len(out[2]) = 1 + MaxCalls

\* C2: a connection that is still open and was the most recent one to
\* register its identifier is present in the registry under it.
C2_LatestOpenIsRegistered ==
    \A c \in Conns :
        (conn[c].status \in {"open", "failed"} /\ Latest(c))
            => MapGet(clients, conn[c].id) = c

\* C3: when the close notification of a connection fires its identifier
\* leaves the registry; a closed stream is never written again, and a
\* publish to the identifier while nothing is registered for it writes no
\* frame to any stream.
C3_CleanupOnClose ==
    /\ [][\A c \in Conns :
            (conn[c].status # "closed" /\ conn'[c].status = "closed")
                => ~Has(clients', conn[c].id)]_vars
    /\ [][\A c \in Conns :
            /\ conn[c].status = "closed" => out'[c] = out[c]
            /\ (conn[c].status = "closed" /\ ~Has(clients, conn[c].id)
                  /\ CallSendProgressUpdate(conn[c].id))
                 => (out' = out /\ clients' = clients)]_vars

C3_Witness ==
    \E c \in Conns :
        /\ c \in lost
        /\ Len(out[c]) > 1
        /\ ~Has(clients, conn[c].id)

\* C4: a handler step that publishes to an identifier with no registered
\* stream writes no frame, leaves the registry unchanged and raises nothing:
\* the handler goes on to its await or response.
C4_NoOpOnUnknownPublish ==
    [][\A r \in Runs :
          (/\ Len(runs'[r].published) > Len(runs[r].published)
           /\ ~Has(clients, runs'[r].clientId))
            => (/\ out' = out
                /\ clients' = clients
                /\ raised' = raised
                /\ runs'[r].state # "escaped")]_vars

C4_Witness ==
    \E r \in Runs :
        /\ runs[r].state = "done"
        /\ runs[r].http = 200
        /\ \A c \in Conns : conn[c].status = "idle"

\* C5: broadcast appends the event exactly once to the stream of every
\* registered identifier whose transport is up, writes nothing to any other
\* stream, raises nothing and leaves the registry as it was.
C5_BroadcastReachesAll ==
    [][CallBroadcast =>
          /\ \A c \in Conns :
                out'[c] = IF Registered(c) /\ conn[c].status = "open"
                          THEN Append(out[c], Frame(JSONstringify(NextUpdate)))
                          ELSE out[c]
          /\ ~raised'
          /\ clients' = clients]_vars

C5_Witness ==
    /\ ncalls = 1
    /\ Len(clients) = MaxConns
    /\ \A c \in Conns : conn[c].status = "open" /\ Len(out[c]) = 2
    /\ \A c \in Conns : out[c][2] = Frame(JSONstringify(Updates[1]))

C8_FirstFrameConnected ==
    \A c \in Conns :
        /\ ~Opened(c) => out[c] = <<>>
        /\ Opened(c) =>
              /\ Len(out[c]) >= 1
              /\ out[c][1] = Frame(ConnectedJSON(conn[c].id))
              /\ conn[c].id # NoParam

C8_Witness ==
    \E c \in Conns :
        /\ Opened(c)
        /\ Len(due[c]) < ncalls
        /\ Len(out[c]) >= 2

\* C11: a connection has exactly one close listener from the moment it is
\* established, removeClient has not been called for it while its close
\* notification has not fired, and has been called exactly once when it has.
C11_UnregisterOncePerChannel ==
    \A c \in Conns :
        /\ ~Opened(c) => (chan[c].hooks = 0 /\ chan[c].unreg = 0)
        /\ conn[c].status \in {"open", "failed"}
              => (chan[c].hooks = 1 /\ chan[c].unreg = 0)
        /\ conn[c].status = "closed"
              => (chan[c].hooks = 1 /\ chan[c].unreg = 1)

C11_Witness ==
    /\ conn[1].status = "closed" /\ chan[1].unreg = 1
    /\ conn[2].status = "failed" /\ chan[2].unreg = 0

Terminal(ev) == ev.status \in {"completed", "error"}

Finished(r) == runs[r].state \in {"done", "escaped"}

\* C9: a handler run that published a started event and has returned has
\* published exactly one terminal event.
C9_ExactlyOneTerminal ==
    \A r \in Runs :
        (/\ Finished(r)
         /\ \E i \in 1..Len(runs[r].published) :
                runs[r].published[i].status = "started")
            => Cardinality({i \in 1..Len(runs[r].published) :
                               Terminal(runs[r].published[i])}) = 1

\* C10: a handler that answered with status 400 or 500 published an error
\* event before it, as the last of its events.
C10_ErrorEventBeforeErrorResponse ==
    \A r \in Runs :
        runs[r].http \in {400, 500}
            => /\ Len(runs[r].published) > 0
               /\ runs[r].published[Len(runs[r].published)].status = "error"

\* the stream that was opened for the identifier has closed and nothing is
\* registered for it
StreamGone(clientId) ==
    /\ ~Has(clients, clientId)
    /\ \E c \in Conns : conn[c].status = "closed" /\ conn[c].id = clientId

C13_NoReplay ==
    \A c \in Conns :
        Opened(c) =>
            /\ Len(out[c]) <= Len(Expected(c))
            /\ out[c] = SubSeq(Expected(c), 1, Len(out[c]))

C13_Witness ==
    \E c, d \in Conns :
        /\ c < d
        /\ conn[c].id = conn[d].id
        /\ Len(out[c]) >= 2
        /\ conn[d].status = "open" /\ Registered(d)
        /\ out[d] = <<Frame(ConnectedJSON(conn[d].id))>>

\* JSON.parse of the payload of a frame, as the receiver of a ProgressUpdate
\* reads it
JSONfield(json, key) ==
    LET at == {i \in 1..Len(json) : json[i][1] = key} IN
    IF at = {} THEN Absent ELSE json[CHOOSE i \in at : TRUE][2]

JSONparse(json) ==
    Ev(JSONfield(json, "type"), JSONfield(json, "status"),
       JSONfield(json, "step"),
       IF JSONfield(json, "progress") = Absent THEN NoProgress
       ELSE CHOOSE n \in 0..100 : toString(n) = JSONfield(json, "progress"))

FramesOn(o) == LET RECURSIVE Sum(_)
                   Sum(c) == IF c = 0 THEN 0 ELSE Len(o[c]) + Sum(c - 1)
               IN Sum(MaxConns)

\* C14: a sendProgressUpdate call for an identifier whose registered stream
\* is up appends exactly one frame to that stream, in the data-line framing
\* and with a payload that reads back as the event passed; no call adds more
\* than one frame in all.
C14_OneFramePerPublish ==
    [][\A id \in Ids :
          CallSendProgressUpdate(id) =>
              /\ FramesOn(out') <= FramesOn(out) + 1
              /\ \A c \in Conns :
                    (MapGet(clients, id) = c /\ conn[c].status = "open")
                        => /\ Len(out'[c]) = Len(out[c]) + 1
                           /\ SubSeq(out'[c], 1, Len(out[c])) = out[c]
                           /\ out'[c][Len(out'[c])][1] = "data: "
                           /\ out'[c][Len(out'[c])][3] = "\n\n"
                           /\ JSONparse(out'[c][Len(out'[c])][2])
                                = NextUpdate]_vars

C14_Witness ==
    \E c \in Conns :
        /\ ncalls = MaxCalls
        /\ Registered(c) /\ conn[c].status = "open"
        /\ Len(out[c]) = 1 + MaxCalls
        /\ JSONparse(out[c][2][2]) = Updates[1]
        /\ JSONparse(out[c][3][2]) = Updates[2]

\* the identifier of c was synthesized: the request carried no clientId
Synthesized(c) ==
    Opened(c) /\ conn[c].id \in {toString(t) : t \in 0..MaxNow}

\* a sendProgressUpdate call with the identifier of c appends the event's
\* frame to the stream of c
Reaches(c) ==
    \A i \in 1..Len(Updates) :
        sendProgressUpdate(out, conn[c].id, Updates[i]).out[c]
            = Append(out[c], Frame(JSONstringify(Updates[i])))

\* C15 as stated: a sendProgressUpdate with the synthesized identifier of an
\* open connection reaches its stream, whatever other connections without
\* an identifier did.
C15_SynthesizedIdReachesStream ==
    \A c \in Conns :
        (Synthesized(c) /\ conn[c].status = "open") => Reaches(c)

\* C15 amended: the synthesized identifier is the decimal text of a
\* Date.now() value not later than the present and is the one in the
\* connected frame of the connection; a sendProgressUpdate with it reaches
\* the stream while the connection is open and is the registered entry of
\* the identifier, which it is for as long as no other connection resolved
\* to the same identifier.
C15_SynthesizedIdReachesWhileRegistered ==
    \A c \in Conns :
        Synthesized(c) =>
            /\ \E t \in 0..now : conn[c].id = toString(t)
            /\ out[c][1] = Frame(ConnectedJSON(conn[c].id))
            /\ (conn[c].status = "open" /\ Registered(c)) => Reaches(c)
            /\ (/\ conn[c].status = "open"
                /\ \A d \in Conns \ {c} : conn[d].id # conn[c].id)
                  => Registered(c)

C15_Witness ==
    \E c, d \in Conns :
        /\ Synthesized(c) /\ Synthesized(d)
        /\ conn[c].id # conn[d].id
        /\ conn[c].status = "open" /\ conn[d].status = "open"
        /\ ncalls = 1
        /\ Len(out[c]) = 2 /\ Len(out[d]) = 1

\* a write of an event's frame to the stream of c failed: the event was
\* passed to write but is not on the stream
WriteFailed(c) == Opened(c) /\ Len(out[c]) < 1 + Len(due[c])

\* C16: after a write to a registered stream failed during publish or
\* broadcast, that stream is no longer the registry's entry for its
\* identifier.
C16_FailedWriteUnregisters ==
    \A c \in Conns : WriteFailed(c) => ~Registered(c)

\* the positions of a call in the calls sseMiddleware made for a connection
At(log, step) == {i \in 1..Len(log) : log[i] = step}

Once(log, step) == Cardinality(At(log, step)) = 1

Before(log, a, b) == \A i \in At(log, a), j \in At(log, b) : i < j

\* C17: establishing a connection sets the three headers, flushes them,
\* registers the handle, writes the connected frame and subscribes to the
\* close notification, in that order, each of the last four once; a
\* connection that has not been established has no registry entry and no
\* frame.
C17_EstablishmentOrder ==
    \A c \in Conns :
        /\ ~Opened(c) =>
              /\ out[c] = <<>>
              /\ \A i \in 1..Len(clients) : clients[i].response # c
              /\ chan[c].log = <<>>
        /\ Opened(c) =>
              LET log == chan[c].log IN
              /\ Cardinality(At(log, "setHeader")) = 3
              /\ Once(log, "flushHeaders") /\ Once(log, "addClient")
              /\ Once(log, "write") /\ Once(log, "on")
              /\ Before(log, "setHeader", "flushHeaders")
              /\ Before(log, "flushHeaders", "addClient")
              /\ Before(log, "addClient", "write")
              /\ Before(log, "write", "on")

C17_Witness ==
    /\ conn[1].status = "open" /\ Registered(1)
    /\ Len(out[1]) = 1 /\ Len(chan[1].log) = 7
    /\ ~Opened(2)

\* the two maps agree on every identifier but clientId
SameButFor(m, n, clientId) ==
    \A y \in Ids \ {clientId} : MapGet(m, y) = MapGet(n, y)

\* C18: addClient changes at most the entry of its identifier, which then
\* holds the handle added; removeClient changes at most the entry of its
\* identifier, which is then absent, and changes nothing when it was absent
\* already; neither writes a frame (the only frame of an establishing step
\* is the connected frame the middleware writes to the new stream), and
\* sendProgressUpdate and broadcast leave the registry as it was.
C18_FrameEffects ==
    /\ [](\A x \in Ids :
            /\ \A c \in Conns :
                  LET m == addClient(clients, [id |-> x, response |-> c]) IN
                  MapGet(m, x) = c /\ SameButFor(m, clients, x)
            /\ LET m == removeClient(clients, x) IN
               /\ ~Has(m, x) /\ SameButFor(m, clients, x)
               /\ ~Has(clients, x) => m = clients
               /\ removeClient(m, x) = m)
    /\ [][/\ ncalls' # ncalls => clients' = clients
          /\ \A c \in Conns :
                /\ (~Opened(c) /\ conn'[c].status = "open")
                      => /\ MapGet(clients', conn'[c].id) = c
                         /\ SameButFor(clients', clients, conn'[c].id)
                         /\ \A d \in Conns \ {c} : out'[d] = out[d]
                         /\ Len(out'[c]) = 1
                /\ (conn[c].status # "closed" /\ conn'[c].status = "closed")
                      => /\ ~Has(clients', conn[c].id)
                         /\ SameButFor(clients', clients, conn[c].id)
                         /\ ~Has(clients, conn[c].id) => clients' = clients
                         /\ out' = out]_vars

C18_Witness ==
    \E c, d \in Conns :
        /\ conn[c].status = "closed"
        /\ Registered(d)
        /\ conn[d].id # conn[c].id
        /\ Len(out[d]) = 1 + MaxCalls

\* C19: a sendProgressUpdate call for identifier x leaves the stream of
\* every connection with another identifier as it was, whatever the event,
\* and what a later publish to that other identifier puts on its stream is
\* the same whether or not the call for x was made before it.
C19_NoCrossDelivery ==
    \A x \in Ids, c \in Conns :
        (Opened(c) /\ conn[c].id # x) =>
            \A i, j \in 1..Len(Updates) :
                LET after == sendProgressUpdate(out, x, Updates[i]).out IN
                /\ after[c] = out[c]
                /\ sendProgressUpdate(after, conn[c].id, Updates[j]).out[c]
                     = sendProgressUpdate(out, conn[c].id, Updates[j]).out[c]

C19_Witness ==
    \E c, d \in Conns :
        /\ conn[c].id # conn[d].id
        /\ Registered(c) /\ conn[c].status = "open"
        /\ Registered(d) /\ conn[d].status = "open"
        /\ clients[1].response = c
        /\ Len(due[c]) = 0 /\ Len(due[d]) = MaxCalls
        /\ out[c] = Expected(c) /\ out[d] = Expected(d)

\* C20: every entry of the registry holds the response of a connection
\* whose close notification has not fired, and once every connection that
\* was opened has closed the registry is empty.
C20_RegistryHoldsLiveConnections ==
    /\ \A i \in 1..Len(clients) :
          /\ clients[i].response \in Conns
          /\ conn[clients[i].response].status \in {"open", "failed"}
    /\ (\A c \in Conns : conn[c].status \in {"idle", "closed"})
          => clients = <<>>

C20_Witness ==
    /\ \A c \in Conns : conn[c].status = "closed"
    /\ \E c \in Conns : Len(out[c]) >= 2
    /\ clients = <<>>

\* C21: in every handler run the first event published has status started,
\* the progress values of the events that carry one increase strictly,
\* a completed event carries progress 100 and is published only by a run
\* that answers 200, and a terminal event (completed or error) is the last
\* event of its run.
C21_HandlerEventProtocol ==
    \A r \in Runs :
        LET p == runs[r].published IN
        /\ Len(p) > 0 => p[1].status = "started"
        /\ \A i, j \in 1..Len(p) :
              (i < j /\ p[i].progress # NoProgress
                     /\ p[j].progress # NoProgress)
                  => p[i].progress < p[j].progress
        /\ \A i \in 1..Len(p) :
              /\ p[i].status = "completed"
                    => /\ p[i].progress = 100
                       /\ runs[r].state = "done"
                       /\ runs[r].http = 200
              /\ Terminal(p[i]) => i = Len(p)
        /\ runs[r].http = 200
              => (Len(p) > 0 /\ p[Len(p)].status = "completed")

C21_Witness ==
    \E r \in Runs :
        /\ runs[r].kind = "mintCollectionNFT"
        /\ runs[r].state = "done"
        /\ runs[r].http = 200
        /\ Len(runs[r].published)
              = Cardinality({i \in 1..Len(mintCollectionNFTCode) :
                                mintCollectionNFTCode[i].op = "pub"})
        /\ runs[r].published[Len(runs[r].published)].progress = 100

====
